---- MODULE Spec2Model ----
(***************************************************************************)
(* RetroSpec: the model invoker (analyzeDeviceReviews, in its              *)
(* multi-candidate and its single-attempt form) and the search state of    *)
(* the App component that awaits it.                                       *)
(*                                                                         *)
(* Strings are sequences of tokens; the substrings the code searches for   *)
(* ("API Key", "403", "404", "429") are tokens of their own, so that       *)
(* String.includes is membership of the token and + is \o.  An optional    *)
(* value (undefined / null) is the empty tuple, a present one <<v>>.       *)
(***************************************************************************)
EXTENDS Integers, Sequences, FiniteSets, TLC

VARIABLES
    variant,      \* which services/geminiService build is linked: "multi" | "single"
    apiKey,       \* import.meta.env.VITE_API_KEY
    query,        \* App: useState('') query
    searchState,  \* App: useState<SearchState>
    pc,           \* position of the invocation: "idle" | "calling" | "probing" | "settled"
    modelIdx,     \* multi: position of the for..of loop over KNOWN_MODELS
    lastError,    \* multi: let lastError
    friendlyError,\* single: let friendlyError, while the probe is awaited
    calls,        \* network: generateContent calls issued by the invocation, in order
    pending,      \* network: indices of calls not yet settled
    delivered,    \* network: what the service delivered to the call settled last
    failures,     \* console: the errors caught (and logged) by the invocation, in order
    warned,       \* console: the prefix warning of getAIClient was logged
    outcome,      \* the promise returned by analyzeDeviceReviews, once settled
    inFlight      \* App: invocations of analyzeDeviceReviews that handleSearch still awaits

vars == <<variant, apiKey, query, searchState, pc, modelIdx, lastError, friendlyError, calls,
          pending, delivered, failures, warned, outcome, inFlight>>

----------------------------------------------------------------------------
(* Bounds *)

MaxChunks == 3

----------------------------------------------------------------------------
(* Optional values and strings *)

None == <<>>
Some(v) == <<v>>

\* String.prototype.includes for a marker token
Includes(s, marker) == \E i \in DOMAIN s : s[i] = marker

\* JS truthiness of an optional string: undefined and "" are falsy
Truthy(o) == o # None /\ o[1] # <<>>

Err(name, message) == [name |-> name, message |-> message]

\* Error.prototype.toString, as the template literal applies it
ErrToString(e) ==
    IF e.message = <<>> THEN <<e.name>> ELSE <<e.name, ": ">> \o e.message

----------------------------------------------------------------------------
(* getAIClient *)

KeyPrefix == "AIza"

Keys ==
    { None, Some(<<>>), Some(<<"sk-", "0123">>), Some(<<KeyPrefix, "0123">>) }

MissingKeyError ==
    Err("Error", <<"API Key", " is missing. Please set VITE_API_KEY in your environment.">>)

\* mutant: only an undefined key counts as missing
KeyMissingUndefinedOnly(key) == key = None

\* line 7: if (!apiKey) throw
KeyMissing(key) == ~Truthy(key)

\* line 12: !apiKey.startsWith("AIza")
KeyMalformed(key) == Truthy(key) /\ key[1][1] # KeyPrefix

\* mutant: a key without the prefix is rejected
GetAIClientStrict(key) ==
    IF KeyMissing(key) \/ KeyMalformed(key)
    THEN [ok |-> FALSE, error |-> MissingKeyError, warn |-> KeyMalformed(key)]
    ELSE [ok |-> TRUE, client |-> key[1], warn |-> FALSE]

\* the client handle, or the error thrown; the warning is console output only
GetAIClient(key) ==
    IF KeyMissing(key)
    THEN [ok |-> FALSE, error |-> MissingKeyError, warn |-> FALSE]
    ELSE [ok |-> TRUE, client |-> key[1], warn |-> KeyMalformed(key)]

----------------------------------------------------------------------------
(* Model output: the JSON payload and the grounding metadata *)

Payload1 ==
    [ deviceName |-> "Pixel 8 Pro", launchDate |-> "2023-10-12",
      currentVerdict |-> "Buy", aggregateScore |-> 72, reviewCount |-> 1200,
      confidenceScore |-> 80, dataSourcesFound |-> <<"a.com">>,
      timePoints |-> << [label |-> "Launch", date |-> "2023-10-12",
                         score |-> 72, summary |-> "Mixed"] >>,
      pros |-> <<"camera">>, cons |-> <<"battery">> ]

\* out-of-range scores and time points out of chronological order
Payload2 ==
    [ deviceName |-> "iPhone 15", launchDate |-> "2023-09-22",
      currentVerdict |-> "Maybe", aggregateScore |-> 150, reviewCount |-> 0,
      confidenceScore |-> 101, dataSourcesFound |-> <<>>,
      timePoints |-> << [label |-> "Now", date |-> "2025-01-01",
                         score |-> 130, summary |-> "Good"],
                        [label |-> "Launch", date |-> "2023-09-22",
                         score |-> 60, summary |-> "Hype"] >>,
      pros |-> <<>>, cons |-> <<"price", "price">> ]

Payloads == {Payload1, Payload2}

JSONText(p) ==
    << "{", p.deviceName, p.launchDate, p.currentVerdict, p.aggregateScore,
       p.reviewCount, p.confidenceScore, p.dataSourcesFound, p.timePoints,
       p.pros, p.cons, "}" >>

GarbageText == <<"API Key", " needed">>

IsJSON(text) == \E p \in Payloads : JSONText(p) = text

\* JSON.parse of a text that is JSON
JSONParse(text) == CHOOSE p \in Payloads : JSONText(p) = text

\* JSON.parse of a text that is not JSON throws a SyntaxError whose message
\* depends on the engine: some quote the offending text, some do not
SyntaxErrors(text) ==
    { Err("SyntaxError", <<"Unexpected token in JSON at position 0">>),
      Err("SyntaxError", <<"Unexpected token, \"">> \o text \o <<"\" is not valid JSON">>) }

OptStrings(S) == {None} \cup {Some(<<>>)} \cup {Some(<<s>>) : s \in S}

Uris == {"a.com/x", "b.com/y"}
Titles == {"A", "B"}

\* a grounding chunk: chunk.web may be absent, and so may web.uri and web.title
Chunks ==
    {[web |-> None]} \cup
    {[web |-> Some([uri |-> u, title |-> t])] :
        u \in OptStrings(Uris), t \in OptStrings(Titles)}

RECURSIVE SeqsUpTo(_, _)
SeqsUpTo(S, n) ==
    IF n = 0 THEN {<<>>}
    ELSE LET shorter == SeqsUpTo(S, n - 1)
         IN  shorter \cup {Append(s, x) : s \in {t \in shorter : Len(t) = n - 1}, x \in S}

Chunk(u, t) == [web |-> Some([uri |-> Some(<<u>>), title |-> t])]

\* response.candidates?.[0]?.groundingMetadata?.groundingChunks: None when any
\* level is absent
AllGroundings == {None} \cup {Some(cs) : cs \in SeqsUpTo(Chunks, MaxChunks)}

SampleGroundings ==
    { None, Some(<<>>),
      Some(<< Chunk("a.com/x", Some(<<"A">>)), Chunk("a.com/x", Some(<<"B">>)),
              Chunk("b.com/y", None) >>) }

Response(text, grounding) == [text |-> text, grounding |-> grounding]

----------------------------------------------------------------------------
(* Extraction and deduplication of the sources *)

SourceTitle(web) == IF Truthy(web.title) THEN web.title[1][1] ELSE "Source"

\* lines 118-123: map each chunk to {title, uri} or null, filter the nulls;
\* "|| []" when the chain of optional accesses gave undefined
RECURSIVE MapFilter(_)
MapFilter(cs) ==
    IF cs = <<>> THEN <<>>
    ELSE LET c == Head(cs)
             rest == MapFilter(Tail(cs))
         IN  IF c.web # None /\ Truthy(c.web[1].uri)
             THEN <<[title |-> SourceTitle(c.web[1]), uri |-> c.web[1].uri[1][1]]>> \o rest
             ELSE rest

ExtractSources(grounding) ==
    IF grounding = None THEN <<>> ELSE MapFilter(grounding[1])

\* mutant: findLastIndex
FindLastIndex(self, uri) ==
    IF \E i \in DOMAIN self : self[i].uri = uri
    THEN CHOOSE i \in DOMAIN self :
            self[i].uri = uri /\ \A j \in (i + 1)..Len(self) : self[j].uri # uri
    ELSE 0

\* Array.prototype.findIndex (1-based; 0 when nothing matches)
FindIndex(self, uri) ==
    IF \E i \in DOMAIN self : self[i].uri = uri
    THEN CHOOSE i \in DOMAIN self :
            self[i].uri = uri /\ \A j \in 1..(i - 1) : self[j].uri # uri
    ELSE 0

\* lines 126-130: sources.filter((source, index, self) =>
\*   index === self.findIndex(t => t.uri === source.uri)), from index i on
RECURSIVE FilterFirst(_, _)
FilterFirst(self, i) ==
    IF i > Len(self) THEN <<>>
    ELSE (IF i = FindIndex(self, self[i].uri) THEN <<self[i]>> ELSE <<>>)
         \o FilterFirst(self, i + 1)

\* mutant: no deduplication
UniqueSourcesAll(sources) == sources

UniqueSources(sources) == FilterFirst(sources, 1)

\* mutant: the aggregate score is clamped to 100
SpreadClamped(data, uniqueSources) ==
    [f \in (DOMAIN data) \cup {"sources"} |->
        IF f = "sources" THEN uniqueSources
        ELSE IF f = "aggregateScore" /\ data[f] > 100 THEN 100
        ELSE data[f]]

\* line 132: { ...data, sources: uniqueSources }
Spread(data, uniqueSources) ==
    [f \in (DOMAIN data) \cup {"sources"} |->
        IF f = "sources" THEN uniqueSources ELSE data[f]]

----------------------------------------------------------------------------
(* The model service *)

KNOWN_MODELS ==
    << "gemini-2.0-flash-exp", "gemini-1.5-flash", "gemini-1.5-flash-002",
       "gemini-1.5-flash-8b", "gemini-1.5-pro" >>

SingleModel == "gemini-1.5-flash"

\* errors the client library raises for a failed call
ServiceErrors ==
    { Err("Error", <<"[", "404", " Not Found] model is not found">>),
      Err("Error", <<"[", "429", " Too Many Requests] quota exceeded">>),
      Err("Error", <<"[", "403", " Forbidden] permission denied">>),
      Err("Error", <<"API Key", " not found. Please pass a valid API key.">>),
      Err("Error", <<>>) }

Failed(e) == [kind |-> "error", error |-> e]
Responded(r) == [kind |-> "response", response |-> r]

Texts == {<<>>, GarbageText} \cup {JSONText(p) : p \in Payloads}

\* what the service may deliver to a generateContent call
Deliveries ==
    {Failed(e) : e \in ServiceErrors} \cup
    {Responded(Response(t, g)) : t \in Texts, g \in SampleGroundings}

\* successful deliveries over every grounding list up to MaxChunks
GroundedDeliveries ==
    {Responded(Response(JSONText(Payload1), g)) : g \in AllGroundings}

----------------------------------------------------------------------------
(* analyzeDeviceReviews: the body of the try block *)

Returned(v) == [ok |-> TRUE, value |-> v]
Thrown(e) == [ok |-> FALSE, error |-> e]

\* multi line 111, single lines 109-111
EmptyResponseError(v) ==
    IF v = "multi" THEN Err("Error", <<"Empty response">>)
    ELSE Err("Error", <<"Empty response from Gemini">>)

\* mutant: the empty-text guard is missing
IsEmptyTextNever(text) == FALSE

\* if (!jsonText) throw
IsEmptyText(text) == text = <<>>

\* lines 107-132 after the call has settled with delivery d: the ways the try
\* block can end (more than one only where the engine words the SyntaxError)
Attempts(v, d) ==
    IF d.kind = "error" THEN {Thrown(d.error)}
    ELSE IF IsEmptyText(d.response.text) THEN {Thrown(EmptyResponseError(v))}
    ELSE IF ~IsJSON(d.response.text)
         THEN {Thrown(e) : e \in SyntaxErrors(d.response.text)}
    ELSE {Returned(Spread(JSONParse(d.response.text),
                          UniqueSources(ExtractSources(d.response.grounding))))}

----------------------------------------------------------------------------
(* Multi-candidate variant: classification and the composed message *)

FriendlyPrefix == <<"Failed to analyze reviews. ">>

\* line 139
IsCredentialError(e) == Includes(e.message, "API Key") \/ Includes(e.message, "403")

\* line 150
IsApiKeyMessage(e) == Includes(e.message, "API Key")

\* line 153: ${lastError?.message || lastError}
LastErrorText(le) ==
    IF le = None THEN <<"null">>
    ELSE IF le[1].message # <<>> THEN le[1].message
    ELSE ErrToString(le[1])

\* lines 149-154
FriendlyMulti(le) ==
    IF le # None /\ IsApiKeyMessage(le[1])
    THEN FriendlyPrefix \o <<"API Key", " configuration issue. (", "403", "). Raw: ">>
         \o le[1].message
    ELSE FriendlyPrefix \o <<"All available models failed. Last error: ">>
         \o LastErrorText(le)

\* mutant: only the first failure is remembered
RecordFirstError(previous, e) == IF previous = None THEN Some(e) ELSE previous

\* line 136
RecordError(previous, e) == Some(e)

\* mutant: the loop gives up after the first failure
HasNextNever(i) == FALSE

\* the for..of iterator: is there a next candidate, and which
HasNext(i) == i < Len(KNOWN_MODELS)
\* mutant: the loop does not advance
NextIdxSame(i) == i

NextIdx(i) == i + 1

\* mutant: every attempt names the first candidate
MultiCallFirst(i) == [model |-> KNOWN_MODELS[1], tools |-> TRUE]

MultiCall(i) == [model |-> KNOWN_MODELS[i], tools |-> TRUE]

----------------------------------------------------------------------------
(* Single-attempt variant: classification and the composed message *)

\* lines 138-146
FriendlySingle(e) ==
    IF IsCredentialError(e)
    THEN FriendlyPrefix \o <<"API Key", " configuration issue. (", "403", "/Forbidden). ">>
    ELSE IF Includes(e.message, "404")
    THEN FriendlyPrefix \o <<"Model not found (", "404",
                             "). Ensure you have access to gemini-1.5-flash. ">>
    ELSE IF Includes(e.message, "429")
    THEN FriendlyPrefix \o <<"Quota exceeded (", "429", "). ">>
    ELSE FriendlyPrefix

\* mutant: the probe is issued whatever the failure
WantsProbeAlways(fe) == TRUE

\* line 149
WantsProbe(fe) == ~Includes(fe, "API Key")

\* line 162
WithRawError(fe, e) == fe \o <<"Raw Error: ">> \o e.message

\* line 156
ProbePassed(fe) ==
    fe \o
    <<"Basic connectivity works, but Search Tool failed. (Maybe your key doesn't support Search?)">>

\* line 159
ProbeFailed(fe, fbError) ==
    fe \o <<"API Key", " or Model completely invalid. Raw: ">> \o fbError.message

SingleCall == [model |-> SingleModel, tools |-> TRUE]
ProbeCall == [model |-> SingleModel, tools |-> FALSE]

----------------------------------------------------------------------------
(* App: the search state *)

Queries == {<<>>, <<" ">>, <<" ", "p">>, <<"p">>}

RECURSIVE TrimStart(_)
TrimStart(q) == IF q # <<>> /\ Head(q) = " " THEN TrimStart(Tail(q)) ELSE q

RECURSIVE TrimEnd(_)
TrimEnd(q) ==
    IF q # <<>> /\ q[Len(q)] = " " THEN TrimEnd(SubSeq(q, 1, Len(q) - 1)) ELSE q

\* mutant: the query is tested as it is
TrimNothing(q) == q

\* String.prototype.trim
Trim(q) == TrimEnd(TrimStart(q))

InitialState == [isLoading |-> FALSE, error |-> None, data |-> None]

\* mutant: the button is not disabled while loading
SubmitDisabledEmptyOnly(st, q) == q = <<>>

\* line 87: disabled={searchState.isLoading || !query}
SubmitDisabled(st, q) == st.isLoading \/ q = <<>>

\* mutant: the previous result and error are kept while loading
LoadingKeepsPrevious(st) == [st EXCEPT !.isLoading = TRUE]

\* line 22
LoadingState(st) == [isLoading |-> TRUE, error |-> None, data |-> None]

\* line 26
ResolvedState(st, data) == [isLoading |-> FALSE, error |-> None, data |-> Some(data)]

DefaultMessage == <<"Failed to analyze reviews. Please try again later.">>

\* lines 29-33: err.message || "Failed to analyze reviews. Please try again later."
RejectedState(st, err) ==
    [isLoading |-> FALSE,
     error |-> Some(IF err.message # <<>> THEN err.message ELSE DefaultMessage),
     data |-> None]

----------------------------------------------------------------------------
(* State machine *)

Variants == {"multi", "single"}

Init ==
    /\ variant \in Variants
    /\ apiKey \in Keys
    /\ query = <<>>
    /\ searchState = InitialState
    /\ pc = "idle"
    /\ modelIdx = 0
    /\ lastError = None
    /\ friendlyError = <<>>
    /\ calls = <<>>
    /\ pending = {}
    /\ delivered = None
    /\ failures = <<>>
    /\ warned = FALSE
    /\ outcome = None
    /\ inFlight = 0

\* onChange of the input: setQuery(e.target.value)
TypeQuery ==
    /\ \E q \in Queries : q # query /\ query' = q
    /\ UNCHANGED <<variant, apiKey, searchState, pc, modelIdx, lastError,
                   friendlyError, calls, pending, delivered, failures, warned, outcome,
                   inFlight>>

\* the promise rejects with e and nothing is outstanding
Reject(e) ==
    /\ outcome' = Some(Thrown(e))
    /\ pc' = "settled"

\* multi lines 67-107: from the call of analyzeDeviceReviews to its first await
InvokeMulti ==
    LET genAI == GetAIClient(apiKey) IN
    /\ lastError' = None
    /\ friendlyError' = <<>>
    /\ delivered' = None
    /\ failures' = <<>>
    /\ warned' = (genAI.ok /\ genAI.warn)
    /\ IF ~genAI.ok
       THEN /\ Reject(genAI.error)
            /\ modelIdx' = 0
            /\ calls' = <<>>
            /\ pending' = {}
       ELSE /\ modelIdx' = 1
            /\ calls' = <<MultiCall(1)>>
            /\ pending' = {1}
            /\ pc' = "calling"
            /\ outcome' = None

\* single lines 134-165 for an error caught before or after the first call, up
\* to the probe's await; issued are the calls made so far, outstanding those
\* not settled, logged the errors caught so far
SingleCatch(error, issued, outstanding, logged, warnedSoFar) ==
    LET friendly == FriendlySingle(error)
        genAI == GetAIClient(apiKey)
    IN  /\ lastError' = Some(error)
        /\ modelIdx' = 0
        /\ IF WantsProbe(friendly)
           THEN IF genAI.ok
                THEN /\ friendlyError' = friendly
                     /\ warned' = (warnedSoFar \/ genAI.warn)
                     /\ failures' = Append(logged, error)
                     /\ calls' = Append(issued, ProbeCall)
                     /\ pending' = outstanding \cup {Len(issued) + 1}
                     /\ pc' = "probing"
                     /\ outcome' = None
                ELSE /\ friendlyError' = ProbeFailed(friendly, genAI.error)
                     /\ warned' = warnedSoFar
                     /\ failures' = logged \o <<error, genAI.error>>
                     /\ calls' = issued
                     /\ pending' = outstanding
                     /\ Reject(Err("Error", ProbeFailed(friendly, genAI.error)))
           ELSE /\ friendlyError' = WithRawError(friendly, error)
                /\ warned' = warnedSoFar
                /\ failures' = Append(logged, error)
                /\ calls' = issued
                /\ pending' = outstanding
                /\ Reject(Err("Error", WithRawError(friendly, error)))

\* single lines 59-105: from the call of analyzeDeviceReviews to its first await
InvokeSingle ==
    LET genAI == GetAIClient(apiKey) IN
    /\ delivered' = None
    /\ IF ~genAI.ok
       THEN SingleCatch(genAI.error, <<>>, {}, <<>>, FALSE)
       ELSE /\ lastError' = None
            /\ friendlyError' = <<>>
            /\ failures' = <<>>
            /\ warned' = genAI.warn
            /\ modelIdx' = 0
            /\ calls' = <<SingleCall>>
            /\ pending' = {1}
            /\ pc' = "calling"
            /\ outcome' = None

\* onSubmit of the form, which the disabled submit button blocks: handleSearch
\* up to its await
Submit ==
    /\ ~SubmitDisabled(searchState, query)
    /\ IF Trim(query) = <<>>
       THEN UNCHANGED vars
       ELSE /\ searchState' = LoadingState(searchState)
            /\ IF variant = "multi" THEN InvokeMulti ELSE InvokeSingle
            /\ inFlight' = inFlight + 1
            /\ UNCHANGED <<variant, apiKey, query>>

\* multi lines 107-156: the awaited call settles with a delivery d of D and the
\* function runs on to its next await, its return or its throw
MultiSettles(D) ==
    /\ variant = "multi"
    /\ pc = "calling"
    /\ \E c \in pending, d \in D : \E att \in Attempts(variant, d) :
        /\ delivered' = Some(d)
        /\ IF att.ok
           THEN /\ outcome' = Some(att)
                /\ pc' = "settled"
                /\ pending' = pending \ {c}
                /\ UNCHANGED <<modelIdx, lastError, calls, failures>>
           ELSE LET le == RecordError(lastError, att.error) IN
                /\ lastError' = le
                /\ failures' = Append(failures, att.error)
                /\ IF IsCredentialError(att.error) \/ ~HasNext(modelIdx)
                   THEN /\ Reject(Err("Error", FriendlyMulti(le)))
                        /\ pending' = pending \ {c}
                        /\ UNCHANGED <<modelIdx, calls>>
                   ELSE /\ modelIdx' = NextIdx(modelIdx)
                        /\ calls' = Append(calls, MultiCall(NextIdx(modelIdx)))
                        /\ pending' = (pending \ {c}) \cup {Len(calls) + 1}
                        /\ UNCHANGED <<pc, outcome>>
    /\ UNCHANGED <<variant, apiKey, query, searchState, friendlyError, warned, inFlight>>

\* single lines 105-165: the awaited call settles with a delivery d of D
SingleSettles(D) ==
    /\ variant = "single"
    /\ pc = "calling"
    /\ \E c \in pending, d \in D : \E att \in Attempts(variant, d) :
        /\ delivered' = Some(d)
        /\ IF att.ok
           THEN /\ outcome' = Some(att)
                /\ pc' = "settled"
                /\ pending' = pending \ {c}
                /\ UNCHANGED <<modelIdx, lastError, friendlyError, calls, failures, warned>>
           ELSE SingleCatch(att.error, calls, pending \ {c}, failures, warned)
    /\ UNCHANGED <<variant, apiKey, query, searchState, inFlight>>

\* single lines 154-165: the awaited probe settles with a delivery d of D
ProbeSettles(D) ==
    /\ variant = "single"
    /\ pc = "probing"
    /\ \E c \in pending, d \in D :
        /\ delivered' = Some(d)
        /\ pending' = pending \ {c}
        /\ IF d.kind = "error"
           THEN /\ failures' = Append(failures, d.error)
                /\ friendlyError' = ProbeFailed(friendlyError, d.error)
                /\ Reject(Err("Error", ProbeFailed(friendlyError, d.error)))
           ELSE /\ failures' = failures
                /\ friendlyError' = ProbePassed(friendlyError)
                /\ Reject(Err("Error", ProbePassed(friendlyError)))
    /\ UNCHANGED <<variant, apiKey, query, searchState, modelIdx, lastError, calls, warned,
                   inFlight>>

\* App lines 25-34: the await in handleSearch resumes
Resume ==
    /\ pc = "settled"
    /\ searchState' = IF outcome[1].ok
                      THEN ResolvedState(searchState, outcome[1].value)
                      ELSE RejectedState(searchState, outcome[1].error)
    /\ pc' = "idle"
    /\ inFlight' = inFlight - 1
    /\ UNCHANGED <<variant, apiKey, query, modelIdx, lastError, friendlyError, calls,
                   pending, delivered, failures, warned, outcome>>

Next ==
    \/ TypeQuery
    \/ Submit
    \/ MultiSettles(Deliveries)
    \/ SingleSettles(Deliveries)
    \/ ProbeSettles(Deliveries)
    \/ Resume

Spec == Init /\ [][Next]_vars

\* every generateContent call returns or fails, and the microtask that resumes
\* handleSearch runs
SpecFair ==
    /\ Init
    /\ [][Next]_vars
    /\ WF_vars(MultiSettles(Deliveries))
    /\ WF_vars(SingleSettles(Deliveries))
    /\ WF_vars(ProbeSettles(Deliveries))
    /\ WF_vars(Resume)

\* the invoker alone on a valid key and a fixed query, against a service that
\* answers with every grounding list up to MaxChunks
InitGrounding ==
    /\ Init
    /\ apiKey = Some(<<KeyPrefix, "0123">>)

TypeDevice ==
    /\ query = <<>>
    /\ query' = <<"p">>
    /\ UNCHANGED <<variant, apiKey, searchState, pc, modelIdx, lastError,
                   friendlyError, calls, pending, delivered, failures, warned, outcome,
                   inFlight>>

NextGrounding ==
    \/ TypeDevice
    \/ Submit
    \/ MultiSettles(GroundedDeliveries)
    \/ SingleSettles(GroundedDeliveries)
    \/ Resume

SpecGrounding == InitGrounding /\ [][NextGrounding]_vars

----------------------------------------------------------------------------
(* Vocabulary of the properties *)

Settled == outcome # None
Succeeded == Settled /\ outcome[1].ok
Raised == Settled /\ ~outcome[1].ok
RaisedMessage == outcome[1].error.message

LastOf(s) == s[Len(s)]

\* credential-classified: the text carries the API-key marker or the 403 marker
CredentialClassified(e) ==
    (\E i \in DOMAIN e.message : e.message[i] = "API Key")
    \/ (\E i \in DOMAIN e.message : e.message[i] = "403")

FlagsCredential(msg) ==
    Len(msg) >= 3 /\ msg[2] = "API Key" /\ msg[3] = " configuration issue. ("

SaysAllFailed(msg) ==
    Len(msg) >= 2 /\ msg[2] = "All available models failed. Last error: "

\* the delivery settled last is a response with a non-empty text that is JSON
DeliveredGood ==
    /\ delivered # None
    /\ delivered[1].kind = "response"
    /\ delivered[1].response.text # <<>>
    /\ IsJSON(delivered[1].response.text)

DeliveredEmpty ==
    /\ delivered # None
    /\ delivered[1].kind = "response"
    /\ delivered[1].response.text = <<>>

\* reference deduplication: walk the list once, remembering the URIs seen
RECURSIVE KeepFirst(_, _)
KeepFirst(entries, seen) ==
    IF entries = <<>> THEN <<>>
    ELSE IF Head(entries).uri \in seen THEN KeepFirst(Tail(entries), seen)
    ELSE <<Head(entries)>> \o KeepFirst(Tail(entries), seen \cup {Head(entries).uri})

HasUri(c) == c.web # None /\ c.web[1].uri # None /\ c.web[1].uri[1] # <<>>

\* the chunks that carry a URI, in order, as (title, uri) with the title
\* defaulted to "Source" when it is missing or empty
RECURSIVE TitledEntries(_)
TitledEntries(cs) ==
    IF cs = <<>> THEN <<>>
    ELSE IF HasUri(Head(cs))
    THEN <<[title |-> IF Head(cs).web[1].title \in {None, Some(<<>>)}
                      THEN "Source" ELSE Head(cs).web[1].title[1][1],
            uri |-> Head(cs).web[1].uri[1][1]]>> \o TitledEntries(Tail(cs))
    ELSE TitledEntries(Tail(cs))

\* the same with the chunk's title taken as it is, missing or not
RECURSIVE LiteralEntries(_)
LiteralEntries(cs) ==
    IF cs = <<>> THEN <<>>
    ELSE IF HasUri(Head(cs))
    THEN <<[title |-> Head(cs).web[1].title,
            uri |-> Head(cs).web[1].uri[1][1]]>> \o LiteralEntries(Tail(cs))
    ELSE LiteralEntries(Tail(cs))

DeliveredChunks ==
    IF delivered[1].response.grounding = None THEN <<>>
    ELSE delivered[1].response.grounding[1]

ReferenceSources == KeepFirst(TitledEntries(DeliveredChunks), {})

ReferenceResult ==
    LET p == CHOOSE q \in Payloads : JSONText(q) = delivered[1].response.text
    IN  [f \in (DOMAIN p) \cup {"sources"} |->
            IF f = "sources" THEN ReferenceSources ELSE p[f]]

----------------------------------------------------------------------------
(* Properties *)

\* C1: in the multi-candidate variant, once an attempt has failed with a
\* credential-classified error (its message carries "API Key" or "403") no
\* later candidate is attempted, and the error raised names the API Key
\* configuration issue, not "All available models failed".
C1_CredentialAbortsAndIsFlagged ==
    (variant = "multi" /\ \E k \in DOMAIN failures : CredentialClassified(failures[k]))
    => /\ Len(calls) = Len(failures)
       /\ CredentialClassified(LastOf(failures))
       /\ \A k \in 1..(Len(failures) - 1) : ~CredentialClassified(failures[k])
       /\ Raised
       /\ FlagsCredential(RaisedMessage)
       /\ ~SaysAllFailed(RaisedMessage)

\* C2: in the multi-candidate variant, after a failure that is not
\* credential-classified the next candidate is attempted, and when a later
\* candidate answers with non-empty parseable text the invocation returns that
\* candidate's payload with its own deduplicated sources, and raises nothing;
\* the result depends on that response alone.
C2_FallbackReturnsLaterCandidate ==
    variant = "multi" =>
    /\ (failures # <<>> /\ ~CredentialClassified(LastOf(failures))
        /\ Len(failures) < Len(KNOWN_MODELS))
       => /\ Len(calls) = Len(failures) + 1
          /\ \/ pc = "calling" /\ pending = {Len(calls)} /\ ~Settled
             \/ Succeeded /\ DeliveredGood
    /\ (Settled /\ DeliveredGood)
       => outcome = Some([ok |-> TRUE, value |-> ReferenceResult])

C2_Witness ==
    /\ variant = "multi"
    /\ Len(failures) >= 2
    /\ Succeeded
    /\ Len(outcome[1].value.sources) = 2

\* C3: in the multi-candidate variant, when every candidate has failed and no
\* failure is credential-classified, the error raised says that all available
\* models failed and ends with the message text of the last candidate's failure.
C3_ExhaustionReportsLastFailure ==
    (/\ variant = "multi"
     /\ Settled
     /\ Len(failures) = Len(KNOWN_MODELS)
     /\ \A k \in DOMAIN failures : ~CredentialClassified(failures[k]))
    => /\ Raised
       /\ SaysAllFailed(RaisedMessage)
       /\ RaisedMessage[1] = "Failed to analyze reviews. "
       /\ LastOf(failures).message # <<>>
          => SubSeq(RaisedMessage, 3, Len(RaisedMessage)) = LastOf(failures).message

C3_Witness ==
    /\ variant = "multi"
    /\ Raised
    /\ Len(failures) = Len(KNOWN_MODELS)
    /\ \A k \in DOMAIN failures : ~CredentialClassified(failures[k])
    /\ failures[1].message # LastOf(failures).message
    /\ LastOf(failures).message # <<>>
    /\ SubSeq(RaisedMessage, 3, Len(RaisedMessage)) = LastOf(failures).message

\* C4: a call that succeeds with an empty text body is never parsed and gives
\* no result. Multi: the "Empty response" error is caught and recorded as
\* lastError, then the next candidate is attempted, or after the last one the
\* all-models-failed error is raised. Single: the catch block is entered, as
\* for a failed call, and the invocation raises.
C4_EmptyTextIsAFailure ==
    DeliveredEmpty =>
    /\ ~Succeeded
    /\ variant = "multi" =>
        /\ failures # <<>>
        /\ LastOf(failures) = [name |-> "Error", message |-> <<"Empty response">>]
        /\ lastError = Some(LastOf(failures))
        /\ IF Len(failures) < Len(KNOWN_MODELS)
           THEN /\ ~Settled
                /\ Len(calls) = Len(failures) + 1
                /\ pending = {Len(calls)}
           ELSE /\ Raised
                /\ RaisedMessage = <<"Failed to analyze reviews. ",
                                     "All available models failed. Last error: ",
                                     "Empty response">>
    /\ (variant = "single" /\ pending # {}) =>
        \* the generation call was the one that got the empty text
        /\ failures = <<[name |-> "Error", message |-> <<"Empty response from Gemini">>]>>
        /\ pc = "probing"
        /\ calls = <<[model |-> "gemini-1.5-flash", tools |-> TRUE],
                     [model |-> "gemini-1.5-flash", tools |-> FALSE]>>
    /\ (variant = "single" /\ pending = {}) => Raised

C4_Witness ==
    /\ DeliveredEmpty
    /\ variant = "multi"
    /\ Len(failures) = Len(KNOWN_MODELS)
    /\ Raised

\* C5: the sources of a returned result hold no two entries with the same URI.
C5_SourcesHaveDistinctUris ==
    Succeeded =>
        \A i, j \in DOMAIN outcome[1].value.sources :
            outcome[1].value.sources[i].uri = outcome[1].value.sources[j].uri => i = j

C5_Witness ==
    /\ Succeeded
    /\ Len(DeliveredChunks) = MaxChunks
    /\ \A i \in DOMAIN DeliveredChunks :
        HasUri(DeliveredChunks[i]) /\ DeliveredChunks[i].web[1].uri = Some(<<"a.com/x">>)
    /\ Len(outcome[1].value.sources) = 1

\* C6 as stated: the sources equal the chunks that carry a URI, each mapped to
\* its own (title, URI), first entry per URI kept, in source order.
C6_SourcesAreLiteralFirstSeen ==
    Succeeded =>
        [i \in DOMAIN outcome[1].value.sources |->
            [title |-> Some(<<outcome[1].value.sources[i].title>>),
             uri |-> outcome[1].value.sources[i].uri]]
        = KeepFirst(LiteralEntries(DeliveredChunks), {})

\* C6 amended: the sources equal the chunks that carry a non-empty URI, each
\* mapped to (title, URI) with the title "Source" when the chunk's title is
\* missing or empty, first entry per URI kept, in source order.
C6_SourcesAreFirstSeen ==
    Succeeded => outcome[1].value.sources = ReferenceSources

C6_Witness ==
    /\ Succeeded
    /\ DeliveredChunks =
        << Chunk("a.com/x", Some(<<"A">>)), Chunk("a.com/x", Some(<<"B">>)),
           Chunk("b.com/y", None) >>
    /\ outcome[1].value.sources =
        << [title |-> "A", uri |-> "a.com/x"], [title |-> "Source", uri |-> "b.com/y"] >>

NoKeyConfigured == apiKey = None \/ apiKey = Some(<<>>)

MissingKeyText == " is missing. Please set VITE_API_KEY in your environment."

\* C7: with no API key configured, no generation call and no probe is issued,
\* the invocation raises, and the error raised carries the missing-key text,
\* which no error raised with a key configured carries.
C7_MissingKeyFailsBeforeAnyCall ==
    /\ NoKeyConfigured => (calls = <<>> /\ pending = {} /\ ~Succeeded /\ pc \in {"idle", "settled"})
    /\ (NoKeyConfigured /\ searchState.isLoading) => Raised
    /\ Raised => (NoKeyConfigured <=> (\E i \in DOMAIN RaisedMessage : RaisedMessage[i] = MissingKeyText))

C7_Witness ==
    /\ NoKeyConfigured
    /\ variant = "single"
    /\ Raised
    /\ calls = <<>>

KeyLacksPrefix == apiKey # None /\ apiKey[1] # <<>> /\ apiKey[1][1] # "AIza"

\* C8 as stated: no model call is issued with a key that lacks the prefix.
C8_MalformedKeyIssuesNoCall ==
    KeyLacksPrefix => calls = <<>>

\* C8 amended: a key that lacks the expected prefix is detected before any
\* network call but only logged as a warning: the invocation goes on, issues
\* its model calls with that key, and the caller gets the result or the
\* service's errors, never the missing-key error.
C8_MalformedKeyOnlyWarns ==
    /\ calls # <<>> => (warned <=> KeyLacksPrefix)
    /\ (KeyLacksPrefix /\ searchState.isLoading) => calls # <<>>
    /\ (KeyLacksPrefix /\ Raised) =>
        ~(\E i \in DOMAIN RaisedMessage : RaisedMessage[i] = MissingKeyText)

C8_Witness ==
    /\ KeyLacksPrefix
    /\ warned
    /\ Succeeded

\* C9: in the multi-candidate variant the k-th call of an invocation names the
\* k-th entry of KNOWN_MODELS, a call is issued only when every earlier call
\* has completed with a failure, and at most one call is outstanding.
C9_CandidatesInOrderOneAtATime ==
    variant = "multi" =>
    /\ Len(calls) <= Len(KNOWN_MODELS)
    /\ \A k \in DOMAIN calls : calls[k].model = KNOWN_MODELS[k] /\ calls[k].tools
    /\ Cardinality(pending) <= 1
    /\ pending \subseteq {Len(calls)}
    /\ Len(calls) <= Len(failures) + 1
    /\ pending # {} => Len(failures) = Len(calls) - 1

C9_Witness ==
    /\ variant = "multi"
    /\ Len(calls) = Len(KNOWN_MODELS)
    /\ pending = {Len(KNOWN_MODELS)}

\* C10: error and data are never both set; while isLoading both are null; an
\* invocation in flight has cleared the previous result and error; once the
\* invocation is over, a failure shows the thrown message as it is with no
\* data, and a success shows the result with no error.
C10_SearchStateIsConsistent ==
    /\ ~(searchState.error # None /\ searchState.data # None)
    /\ searchState.isLoading => (searchState.error = None /\ searchState.data = None)
    /\ pc # "idle" => searchState = [isLoading |-> TRUE, error |-> None, data |-> None]
    /\ (pc = "idle" /\ Raised) =>
        searchState = [isLoading |-> FALSE, error |-> Some(RaisedMessage), data |-> None]
    /\ (pc = "idle" /\ Succeeded) =>
        searchState = [isLoading |-> FALSE, error |-> None, data |-> Some(outcome[1].value)]

C10_Witness ==
    /\ pc = "idle"
    /\ Raised
    /\ searchState.error = Some(RaisedMessage)
    /\ searchState.data = None

\* C11: at most one invocation of analyzeDeviceReviews is in flight; from its
\* start until handleSearch has taken its result or its error, isLoading is
\* true and the submit control is disabled, so the state an invocation writes
\* is never overwritten by an older one.
C11_OneInvocationInFlight ==
    /\ inFlight \in {0, 1}
    /\ inFlight = 1 <=> pc # "idle"
    /\ inFlight = 1 <=> searchState.isLoading
    /\ searchState.isLoading => SubmitDisabled(searchState, query)
    /\ inFlight = 1 => ~ENABLED Submit

C11_Witness ==
    /\ inFlight = 1
    /\ pc = "calling"
    /\ Len(calls) >= 2
    /\ query # <<>>
    /\ Trim(query) # <<>>

PayloadFields ==
    { "deviceName", "launchDate", "currentVerdict", "aggregateScore", "reviewCount",
      "confidenceScore", "dataSourcesFound", "timePoints", "pros", "cons" }

\* C12: a result returned for a response without grounding metadata has
\* sources = [], and every result carries each field of the payload the
\* response's text encodes (name, dates, verdict, scores, counts, domains, time
\* points in their order, pros, cons) as it was, and nothing else but sources.
C12_PayloadReturnedUnchanged ==
    (Succeeded /\ DeliveredGood) =>
    /\ delivered[1].response.grounding = None => outcome[1].value.sources = <<>>
    /\ DOMAIN outcome[1].value = PayloadFields \cup {"sources"}
    /\ \E p \in Payloads :
        /\ JSONText(p) = delivered[1].response.text
        /\ \A f \in PayloadFields : outcome[1].value[f] = p[f]
    /\ pc = "idle" => searchState.data = Some(outcome[1].value)

C12_Witness ==
    /\ Succeeded
    /\ DeliveredGood
    /\ delivered[1].response.grounding = None
    /\ outcome[1].value.sources = <<>>
    /\ outcome[1].value.aggregateScore = 150
    /\ outcome[1].value.timePoints[1].label = "Now"
    /\ outcome[1].value.cons = <<"price", "price">>

\* C13: in the multi-candidate variant each candidate is called at most once,
\* so at most |KNOWN_MODELS| calls are made; no call is made after a success or
\* after a credential-classified failure; and, every call returning or failing,
\* an invocation that has issued a call ends settled, with either a result or
\* an error.
C13_BoundedRetryTerminates ==
    /\ [](variant = "multi" =>
            /\ Len(calls) <= Len(KNOWN_MODELS)
            /\ \A i, j \in DOMAIN calls : calls[i].model = calls[j].model => i = j
            /\ Settled => pending = {}
            /\ Succeeded => Len(calls) = Len(failures) + 1
            /\ \A k \in DOMAIN failures :
                CredentialClassified(failures[k])
                    => (k = Len(failures) /\ Len(calls) = k /\ Raised)
            /\ pc = "calling" => ~Settled
            /\ pc = "settled" => Settled /\ (Succeeded <=> ~Raised))
    /\ (variant = "multi" /\ pc = "calling") ~> (pc = "settled" /\ (Succeeded \/ Raised))

C13_Witness ==
    /\ variant = "multi"
    /\ pc = "settled"
    /\ Raised
    /\ Len(calls) = Len(KNOWN_MODELS)

EndsWith(s, t) == Len(s) >= Len(t) /\ SubSeq(s, Len(s) - Len(t) + 1, Len(s)) = t

GenerationCall == [model |-> "gemini-1.5-flash", tools |-> TRUE]
BareCall == [model |-> "gemini-1.5-flash", tools |-> FALSE]

\* the single attempt was made and failed
SingleAttemptFailed == variant = "single" /\ calls # <<>> /\ failures # <<>>

\* C14 as stated: in the single-attempt variant, whenever the attempt fails a
\* second call without the search tool is issued.
C14_ProbeAfterEveryFailure ==
    SingleAttemptFailed => (Len(calls) = 2 /\ calls[2] = BareCall)

\* C14 amended: in the single-attempt variant a failed attempt never yields a
\* result and at most two calls are made. If the failure is not
\* credential-classified a probe without the search tool is issued, and the
\* error raised says that basic connectivity works when the probe succeeds and
\* that key or model are completely invalid, with the probe's error text, when
\* it fails. If the failure is credential-classified no probe is issued and the
\* error raised carries the failure's raw text.
C14_ProbeOnlySelectsWording ==
    variant = "single" =>
    /\ Len(calls) <= 2
    /\ calls # <<>> => calls[1] = GenerationCall
    /\ SingleAttemptFailed =>
        /\ ~Succeeded
        /\ IF CredentialClassified(failures[1])
           THEN /\ calls = <<GenerationCall>>
                /\ Raised
                /\ FlagsCredential(RaisedMessage)
                /\ EndsWith(RaisedMessage, <<"Raw Error: ">> \o failures[1].message)
           ELSE /\ calls = <<GenerationCall, BareCall>>
                /\ \/ pc = "probing" /\ pending = {2} /\ ~Settled
                   \/ /\ Raised
                      /\ pending = {}
                      /\ IF delivered[1].kind = "response"
                         THEN /\ Len(failures) = 1
                              /\ LastOf(RaisedMessage) =
                                 "Basic connectivity works, but Search Tool failed. (Maybe your key doesn't support Search?)"
                         ELSE /\ Len(failures) = 2
                              /\ EndsWith(RaisedMessage,
                                    <<"API Key", " or Model completely invalid. Raw: ">>
                                    \o failures[2].message)

C14_Witness ==
    /\ SingleAttemptFailed
    /\ ~CredentialClassified(failures[1])
    /\ Raised
    /\ calls = <<GenerationCall, BareCall>>
    /\ delivered[1].kind = "response"

\* the delivery settled last is a response whose non-empty text is not JSON
DeliveredGarbage ==
    /\ delivered # None
    /\ delivered[1].kind = "response"
    /\ delivered[1].response.text # <<>>
    /\ \A p \in Payloads : JSONText(p) # delivered[1].response.text

\* C15: in the multi-candidate variant a candidate whose non-empty text does
\* not parse as JSON gives no result: the parse failure is recorded as
\* lastError and the next candidate is attempted, or after the last candidate
\* the all-models-failed error is raised.
C15_ParseFailureIsAFailedCandidate ==
    (variant = "multi" /\ DeliveredGarbage) =>
    /\ ~Succeeded
    /\ failures # <<>>
    /\ LastOf(failures).name = "SyntaxError"
    /\ lastError = Some(LastOf(failures))
    /\ IF Len(failures) < Len(KNOWN_MODELS)
       THEN /\ ~Settled
            /\ Len(calls) = Len(failures) + 1
            /\ pending = {Len(calls)}
       ELSE /\ Raised
            /\ SaysAllFailed(RaisedMessage)

\* empty, or nothing but spaces
IsBlank(q) == \A i \in DOMAIN q : q[i] = " "

\* C16: while the query is empty or only whitespace no step starts an
\* invocation of analyzeDeviceReviews or issues a call, and with no invocation
\* in flight every step, a submission included, leaves isLoading, error and
\* data as they are.
C16_BlankQueryStartsNothing ==
    [][ IsBlank(query) =>
            /\ inFlight' <= inFlight
            /\ pc = "idle" =>
                (searchState' = searchState /\ calls' = calls /\ pc' = "idle"
                 /\ outcome' = outcome) ]_vars

\* a whitespace query with the submit button enabled, a result on display
C16_Witness ==
    /\ query = <<" ">>
    /\ ~SubmitDisabled(searchState, query)
    /\ ENABLED Submit
    /\ searchState.data # None

====
